---- MODULE Spec2Model ----
(***************************************************************************)
(* HSE management system: reference numbering, incident and CAPA          *)
(* workflows, overdue determination.                                      *)
(*                                                                         *)
(* The store is the two database tables (incidents, capas), keyed by the  *)
(* auto-increment primary key.  A reference such as 'INC-2026-00042' is   *)
(* kept as its three '-'-separated components; the last component is the  *)
(* sequence of decimal digits the format specifier {n:05d} produced, so   *)
(* that ordering rows by reference and parsing the number back are        *)
(* computed on the digits as the code computes them on the string.        *)
(* Time is counted in hours (now); a date is now \div 24.                 *)
(***************************************************************************)
EXTENDS Integers, Sequences, FiniteSets, TLC

VARIABLES
    incidents,        \* table incidents_incident: id -> row
    capas,            \* table capas_capa: id -> row
    nextIncidentId,   \* next auto-increment primary key of incidents
    nextCapaId,       \* next auto-increment primary key of capas
    year,             \* datetime.now().year
    now,              \* timezone.now(), in hours
    resp,             \* the last operation and what it returned to its caller
    issued,           \* per prefix, the references given to rows inserted since Init, in order
    pc,               \* concurrent requests: position of each request
    obj,              \* concurrent requests: the in-memory model instance
    risks,            \* table risk_assessment: incident id -> row
    tasks,            \* the send_incident_notification tasks handed to the broker, in order
    notifications,    \* table notifications_notification: id -> row
    evidence,         \* table evidence_evidence: id -> row
    nextEvidenceId,   \* next auto-increment primary key of evidence
    files             \* the names of the files in the media storage

\* the state of the notification app and of the evidence app
notifyVars == <<tasks, notifications>>
evidenceVars == <<evidence, nextEvidenceId, files>>

vars == <<incidents, capas, nextIncidentId, nextCapaId, year, now, resp, issued, pc, obj, risks,
          tasks, notifications, evidence, nextEvidenceId, files>>

----------------------------------------------------------------------------
(* Bounds of the model *)

MaxIncidents == 2
MaxRefIncidents == 1
MaxRefCapas == 1
MaxSeqIncidents == 2
MaxSeqCapas == 2
MaxYears == 1
MaxElapsedHours == 200
NumProcs == 3
MaxCapas == 1
MaxCapaDays == 2
MaxRatingInput == 6
MaxTasks == 1
MaxEvidence == 2
MaxEvidenceCapas == 2
MaxStored == 3
MaxStoredCapas == 2
MaxLastCreates == 1
MaxNotifications == 2
MaxReadHours == 3
MaxOverdueNotifications == 3

(* Program constants *)

PadWidth == 5
BaseYear == 2026
MinRating == 1
MaxRating == 5
MaxRetries == 3

Users == {"u1", "u2"}
None == "None"
NoDate == -1
Notes == {"", "checked"}
Procs == 1..NumProcs

STATUS_DRAFT == "DRAFT"
STATUS_SUBMITTED == "SUBMITTED"
STATUS_UNDER_INVESTIGATION == "UNDER_INVESTIGATION"
STATUS_VALIDATED == "VALIDATED"
STATUS_CLOSED == "CLOSED"
STATUS_CHOICES ==
    {STATUS_DRAFT, STATUS_SUBMITTED, STATUS_UNDER_INVESTIGATION, STATUS_VALIDATED, STATUS_CLOSED}

VERY_LOW == "VERY_LOW"
LOW == "LOW"
MEDIUM == "MEDIUM"
HIGH == "HIGH"
CRITICAL == "CRITICAL"

CAPA_STATUS_OPEN == "OPEN"
CAPA_STATUS_IN_PROGRESS == "IN_PROGRESS"
CAPA_STATUS_COMPLETED == "COMPLETED"
CAPA_STATUS_VERIFIED == "VERIFIED"
CAPA_STATUS_CLOSED == "CLOSED"
CAPA_STATUS_CANCELLED == "CANCELLED"
CAPA_STATUS_CHOICES ==
    {CAPA_STATUS_OPEN, CAPA_STATUS_IN_PROGRESS, CAPA_STATUS_COMPLETED,
     CAPA_STATUS_VERIFIED, CAPA_STATUS_CLOSED, CAPA_STATUS_CANCELLED}

----------------------------------------------------------------------------
(* References: formatting, parsing, ordering *)

RECURSIVE Digits(_)
\* str(n) for n >= 0: the decimal digits, most significant first
Digits(n) == IF n < 10 THEN <<n>> ELSE Append(Digits(n \div 10), n % 10)

\* mutant of FormatNumber: the number is written without padding
FormatNumberUnpadded(n) == Digits(n)

\* f'{n:05d}': zero-padded to PadWidth digits, longer numbers are not truncated
FormatNumber(n) ==
    LET ds == Digits(n)
    IN  IF Len(ds) >= PadWidth THEN ds
        ELSE [i \in 1..(PadWidth - Len(ds)) |-> 0] \o ds

RECURSIVE ParseNumber(_)
\* int(reference.split('-')[-1])
ParseNumber(ds) ==
    IF ds = <<>> THEN 0
    ELSE 10 * ParseNumber(SubSeq(ds, 1, Len(ds) - 1)) + ds[Len(ds)]

\* the empty string a new instance carries in its reference field
NoReference == [prefix |-> "", year |-> 0, digits |-> <<>>]

\* f'{prefix}-{current_year}-{new_number:05d}'
MakeReference(prefix, current_year, new_number) ==
    [prefix |-> prefix, year |-> current_year, digits |-> FormatNumber(new_number)]

\* mutant of StartsWith: the filter matches the prefix of any year
StartsWithAnyYear(reference, prefix, current_year) ==
    reference.prefix = prefix

\* reference__startswith=f'{prefix}-{current_year}'
StartsWith(reference, prefix, current_year) ==
    reference.prefix = prefix /\ reference.year = current_year

\* string comparison of two references that share prefix and year:
\* decided by the first differing digit, a proper prefix sorting first
ReferenceLess(a, b) ==
    LET m == IF Len(a.digits) < Len(b.digits) THEN Len(a.digits) ELSE Len(b.digits)
    IN  \/ \E k \in 1..m :
               /\ a.digits[k] < b.digits[k]
               /\ \A j \in 1..(k - 1) : a.digits[j] = b.digits[j]
        \/ /\ Len(a.digits) < Len(b.digits)
           /\ \A j \in 1..m : a.digits[j] = b.digits[j]

\* objects.filter(reference__startswith=...).order_by('reference').last():
\* the ids of the rows that come last (one row, or none)
LastByReference(table, prefix, current_year) ==
    LET matching == {i \in DOMAIN table : StartsWith(table[i].reference, prefix, current_year)}
    IN  {i \in matching :
            \A j \in matching : ~ReferenceLess(table[i].reference, table[j].reference)}

\* the number save() computes for a new row
NewNumber(table, prefix, current_year) ==
    LET last == LastByReference(table, prefix, current_year)
    IN  IF last # {}
        THEN ParseNumber(table[CHOOSE i \in last : TRUE].reference.digits) + 1
        ELSE 1

\* mutant of SaveReference: every save generates a reference
SaveReferenceAlways(table, prefix, current_year, reference) ==
    MakeReference(prefix, current_year, NewNumber(table, prefix, current_year))

\* the reference save() leaves in self.reference: generated only when empty
SaveReference(table, prefix, current_year, reference) ==
    IF reference = NoReference
    THEN MakeReference(prefix, current_year, NewNumber(table, prefix, current_year))
    ELSE reference

\* mutant of UniqueViolation: the column carries no unique constraint
UniqueViolationOff(table, id, reference) == FALSE

\* unique=True on the reference column: the row id would share its reference
UniqueViolation(table, id, reference) ==
    \E j \in DOMAIN table : j # id /\ table[j].reference = reference

\* the table with row id written (INSERT or UPDATE of all columns)
WriteRow(table, id, row) ==
    [i \in DOMAIN table \cup {id} |-> IF i = id THEN row ELSE table[i]]

\* the table without the rows in ids
DeleteRows(table, ids) ==
    [i \in DOMAIN table \ ids |-> table[i]]

----------------------------------------------------------------------------
(* Model.save(): Incident.save / CAPA.save followed by the database write *)

\* self.save() of the instance `row` with primary key id: the reference is
\* generated if empty, then the row is written unless the unique constraint
\* rejects it (IntegrityError), in which case nothing is written
Save(table, prefix, current_year, id, row) ==
    LET reference == SaveReference(table, prefix, current_year, row.reference)
        ok == ~UniqueViolation(table, id, reference)
    IN  [ok |-> ok,
         reference |-> reference,
         table |-> IF ok THEN WriteRow(table, id, [row EXCEPT !.reference = reference])
                   ELSE table]

NewIncident(status, assigned_to) ==
    [reference |-> NoReference, status |-> status, assigned_to |-> assigned_to,
     reported_date |-> now]

\* a new CAPA, due on the day it is created
NewCapa(incident, status) ==
    [reference |-> NoReference, incident |-> incident, status |-> status,
     due_date |-> now \div 24,
     completion_date |-> NoDate, verification_date |-> NoDate, verification_notes |-> "",
     responsible_person |-> None]

\* what a handler gives back: args are the request's inputs where a property
\* needs them, queued the notification types the handler passed to
\* send_incident_notification.delay()
Response(op, id, user, ok, reference) ==
    [op |-> op, id |-> id, user |-> user, ok |-> ok, reference |-> reference,
     args |-> <<>>, queued |-> {}]

\* the log with one more reference given out
Issue(reference) == [issued EXCEPT ![reference.prefix] = Append(@, reference)]

----------------------------------------------------------------------------
(* Incident handlers *)

\* POST /api/incidents/: serializer.save() -> Incident.save(), then the
\* 'created' notification is queued
CreateIncident(status, assigned_to, limit) ==
    LET saved == Save(incidents, "INC", year, nextIncidentId, NewIncident(status, assigned_to))
    IN  /\ Len(issued["INC"]) < limit
        /\ incidents' = saved.table
        /\ nextIncidentId' = IF saved.ok THEN nextIncidentId + 1 ELSE nextIncidentId
        /\ issued' = IF saved.ok THEN Issue(saved.reference) ELSE issued
        /\ resp' = [Response("create_incident", nextIncidentId, None, saved.ok, saved.reference)
                        EXCEPT !.queued = IF saved.ok THEN {"created"} ELSE {}]
        /\ UNCHANGED <<capas, nextCapaId, year, now, pc, obj, risks, notifyVars, evidenceVars>>

\* PUT/PATCH /api/incidents/{id}/: status and assigned_to are writable fields;
\* the 'assigned' notification is queued when the incident has an assignee
UpdateIncident(id, status, assigned_to) ==
    LET saved == Save(incidents, "INC", year, id,
                      [incidents[id] EXCEPT !.status = status, !.assigned_to = assigned_to])
    IN  /\ id \in DOMAIN incidents
        /\ incidents' = saved.table
        /\ resp' = [Response("update_incident", id, None, saved.ok, saved.reference)
                        EXCEPT !.queued = IF saved.ok /\ assigned_to # None
                                          THEN {"assigned"} ELSE {}]
        /\ UNCHANGED <<capas, nextIncidentId, nextCapaId, year, now, issued, pc, obj, risks, notifyVars, evidenceVars>>

\* mutant of can_be_validated: only CLOSED incidents are refused
can_be_validated_unless_closed(row) ==
    row.status # STATUS_CLOSED

\* Incident.can_be_validated()
can_be_validated(row) ==
    row.status \in {STATUS_SUBMITTED, STATUS_UNDER_INVESTIGATION}

\* Incident.validate(user): the row after the call and what it returns
validate(table, current_year, id, user) ==
    IF ~can_be_validated(table[id])
    THEN [ok |-> FALSE, reference |-> table[id].reference, table |-> table]
    ELSE Save(table, "INC", current_year, id,
              [table[id] EXCEPT !.status = STATUS_VALIDATED, !.assigned_to = user])

\* POST /api/incidents/{id}/validate-incident/
ValidateIncident(id, user) ==
    LET done == validate(incidents, year, id, user)
    IN  /\ id \in DOMAIN incidents
        /\ incidents' = done.table
        /\ resp' = Response("validate_incident", id, user, done.ok, done.reference)
        /\ UNCHANGED <<capas, nextIncidentId, nextCapaId, year, now, issued, pc, obj, risks, notifyVars, evidenceVars>>

\* mutant of close: the check for VALIDATED is missing
close_unless_closed(table, current_year, id) ==
    IF table[id].status = STATUS_CLOSED
    THEN [ok |-> FALSE, reference |-> table[id].reference, table |-> table]
    ELSE Save(table, "INC", current_year, id, [table[id] EXCEPT !.status = STATUS_CLOSED])

\* the body of close_incident: refused when CLOSED, refused when not VALIDATED
close(table, current_year, id) ==
    IF table[id].status = STATUS_CLOSED
    THEN [ok |-> FALSE, reference |-> table[id].reference, table |-> table]
    ELSE IF table[id].status # STATUS_VALIDATED
    THEN [ok |-> FALSE, reference |-> table[id].reference, table |-> table]
    ELSE Save(table, "INC", current_year, id, [table[id] EXCEPT !.status = STATUS_CLOSED])

\* POST /api/incidents/{id}/close-incident/
CloseIncident(id) ==
    LET done == close(incidents, year, id)
    IN  /\ id \in DOMAIN incidents
        /\ incidents' = done.table
        /\ resp' = Response("close_incident", id, None, done.ok, done.reference)
        /\ UNCHANGED <<capas, nextIncidentId, nextCapaId, year, now, issued, pc, obj, risks, notifyVars, evidenceVars>>

\* the evidence rows the deletion collector removes with the CAPAs in ids:
\* the generic relation CAPA.evidence cascades, by a DELETE statement
EvidenceOf(ids) == {e \in DOMAIN evidence : evidence[e].capa \in ids}

\* DELETE /api/incidents/{id}/: the incident's CAPAs with their evidence rows
\* and its risk assessment are deleted with it
DeleteIncident(id) ==
    LET cascaded == {c \in DOMAIN capas : capas[c].incident = id}
    IN  /\ id \in DOMAIN incidents
        /\ incidents' = DeleteRows(incidents, {id})
        /\ capas' = DeleteRows(capas, cascaded)
        /\ risks' = DeleteRows(risks, {id})
        /\ evidence' = DeleteRows(evidence, EvidenceOf(cascaded))
        /\ resp' = Response("delete_incident", id, None, TRUE, incidents[id].reference)
        /\ UNCHANGED <<nextIncidentId, nextCapaId, year, now, issued, pc, obj,
                       notifyVars, nextEvidenceId, files>>

\* queryset.update(status=...) of an admin bulk action
BulkStatus(table, ids, status) ==
    [i \in DOMAIN table |-> IF i \in ids THEN [table[i] EXCEPT !.status = status] ELSE table[i]]

\* admin action 'Mark selected as Validated'
mark_as_validated(ids) ==
    /\ ids # {} /\ ids \subseteq DOMAIN incidents
    /\ incidents' = BulkStatus(incidents, ids, STATUS_VALIDATED)
    /\ resp' = Response("mark_as_validated", 0, None, TRUE, NoReference)
    /\ UNCHANGED <<capas, nextIncidentId, nextCapaId, year, now, issued, pc, obj, risks, notifyVars, evidenceVars>>

\* admin action 'Mark selected as Closed'
mark_as_closed(ids) ==
    /\ ids # {} /\ ids \subseteq DOMAIN incidents
    /\ incidents' = BulkStatus(incidents, ids, STATUS_CLOSED)
    /\ resp' = Response("mark_as_closed", 0, None, TRUE, NoReference)
    /\ UNCHANGED <<capas, nextIncidentId, nextCapaId, year, now, issued, pc, obj, risks, notifyVars, evidenceVars>>

\* Incident.is_overdue() read at time `at`
is_overdue(row, at) ==
    LET days_open == (at - row.reported_date) \div 24
    IN  IF row.status = STATUS_CLOSED THEN FALSE
        ELSE IF row.status = STATUS_SUBMITTED THEN days_open > 2
        ELSE IF row.status = STATUS_UNDER_INVESTIGATION THEN days_open > 7
        ELSE FALSE

\* a caller asks whether incident id is overdue
IsOverdue(id) ==
    /\ id \in DOMAIN incidents
    /\ resp' = Response("is_overdue", id, None, is_overdue(incidents[id], now), incidents[id].reference)
    /\ UNCHANGED <<incidents, capas, nextIncidentId, nextCapaId, year, now, issued, pc, obj, risks, notifyVars, evidenceVars>>

----------------------------------------------------------------------------
(* CAPA handlers *)

\* POST /api/capas/: serializer.save() -> CAPA.save()
CreateCapa(incident, status, limit) ==
    LET saved == Save(capas, "CAPA", year, nextCapaId, NewCapa(incident, status))
    IN  /\ incident \in DOMAIN incidents
        /\ Len(issued["CAPA"]) < limit
        /\ capas' = saved.table
        /\ nextCapaId' = IF saved.ok THEN nextCapaId + 1 ELSE nextCapaId
        /\ issued' = IF saved.ok THEN Issue(saved.reference) ELSE issued
        /\ resp' = Response("create_capa", nextCapaId, None, saved.ok, saved.reference)
        /\ UNCHANGED <<incidents, nextIncidentId, year, now, pc, obj, risks, notifyVars, evidenceVars>>

\* PUT/PATCH /api/capas/{id}/ through CAPACreateUpdateSerializer: status,
\* due_date, completion_date, verification_date and verification_notes are
\* writable fields
UpdateCapa(id, status, due_date, completion_date, verification_date, verification_notes) ==
    LET saved == Save(capas, "CAPA", year, id,
                      [capas[id] EXCEPT !.status = status,
                                        !.due_date = due_date,
                                        !.completion_date = completion_date,
                                        !.verification_date = verification_date,
                                        !.verification_notes = verification_notes])
    IN  /\ id \in DOMAIN capas
        /\ capas' = saved.table
        /\ resp' = Response("update_capa", id, None, saved.ok, saved.reference)
        /\ UNCHANGED <<incidents, nextIncidentId, nextCapaId, year, now, issued, pc, obj, risks, notifyVars, evidenceVars>>

\* mutant of complete: only the finished statuses are refused
complete_unless_finished(table, current_year, today, id) ==
    IF table[id].status \notin {CAPA_STATUS_COMPLETED, CAPA_STATUS_VERIFIED, CAPA_STATUS_CLOSED}
    THEN Save(table, "CAPA", current_year, id,
              [table[id] EXCEPT !.status = CAPA_STATUS_COMPLETED, !.completion_date = today])
    ELSE [ok |-> FALSE, reference |-> table[id].reference, table |-> table]

\* CAPA.complete(user)
complete(table, current_year, today, id) ==
    IF table[id].status = CAPA_STATUS_OPEN \/ table[id].status = CAPA_STATUS_IN_PROGRESS
    THEN Save(table, "CAPA", current_year, id,
              [table[id] EXCEPT !.status = CAPA_STATUS_COMPLETED, !.completion_date = today])
    ELSE [ok |-> FALSE, reference |-> table[id].reference, table |-> table]

\* POST /api/capas/{id}/complete/
CompleteCapa(id) ==
    LET done == complete(capas, year, now \div 24, id)
    IN  /\ id \in DOMAIN capas
        /\ capas' = done.table
        /\ resp' = Response("complete_capa", id, None, done.ok, done.reference)
        /\ UNCHANGED <<incidents, nextIncidentId, nextCapaId, year, now, issued, pc, obj, risks, notifyVars, evidenceVars>>

\* mutant of verify: the status is not tested
verify_any_status(table, current_year, today, id, notes) ==
    Save(table, "CAPA", current_year, id,
         [table[id] EXCEPT !.status = CAPA_STATUS_VERIFIED,
                           !.verification_date = today,
                           !.verification_notes = notes])

\* mutant of verify: the notes are not stored
verify_without_notes(table, current_year, today, id, notes) ==
    IF table[id].status = CAPA_STATUS_COMPLETED
    THEN Save(table, "CAPA", current_year, id,
              [table[id] EXCEPT !.status = CAPA_STATUS_VERIFIED,
                                !.verification_date = today])
    ELSE [ok |-> FALSE, reference |-> table[id].reference, table |-> table]

\* CAPA.verify(user, notes)
verify(table, current_year, today, id, notes) ==
    IF table[id].status = CAPA_STATUS_COMPLETED
    THEN Save(table, "CAPA", current_year, id,
              [table[id] EXCEPT !.status = CAPA_STATUS_VERIFIED,
                                !.verification_date = today,
                                !.verification_notes = notes])
    ELSE [ok |-> FALSE, reference |-> table[id].reference, table |-> table]

\* POST /api/capas/{id}/verify/
VerifyCapa(id, notes) ==
    LET done == verify(capas, year, now \div 24, id, notes)
    IN  /\ id \in DOMAIN capas
        /\ capas' = done.table
        /\ resp' = [Response("verify_capa", id, None, done.ok, done.reference)
                        EXCEPT !.args = <<notes>>]
        /\ UNCHANGED <<incidents, nextIncidentId, nextCapaId, year, now, issued, pc, obj, risks, notifyVars, evidenceVars>>

\* admin action 'Mark as Completed': capa.complete(request.user) on each
\* selected row; the answer counts the rows that were completed
mark_completed(ids) ==
    LET today == now \div 24
        done == [i \in ids |-> complete(capas, year, today, i)]
    IN  /\ ids # {} /\ ids \subseteq DOMAIN capas
        /\ capas' = [i \in DOMAIN capas |-> IF i \in ids THEN done[i].table[i] ELSE capas[i]]
        /\ resp' = Response("mark_completed", Cardinality({i \in ids : done[i].ok}),
                            None, TRUE, NoReference)
        /\ UNCHANGED <<incidents, nextIncidentId, nextCapaId, year, now, issued, pc, obj, risks, notifyVars, evidenceVars>>

\* admin action 'Mark as Verified': capa.verify(request.user) on each selected
\* row, notes left at their default ''
mark_verified(ids) ==
    LET today == now \div 24
        done == [i \in ids |-> verify(capas, year, today, i, "")]
    IN  /\ ids # {} /\ ids \subseteq DOMAIN capas
        /\ capas' = [i \in DOMAIN capas |-> IF i \in ids THEN done[i].table[i] ELSE capas[i]]
        /\ resp' = Response("mark_verified", Cardinality({i \in ids : done[i].ok}),
                            None, TRUE, NoReference)
        /\ UNCHANGED <<incidents, nextIncidentId, nextCapaId, year, now, issued, pc, obj, risks, notifyVars, evidenceVars>>

\* mutant of capa_is_overdue: overdue from the due date on
capa_is_overdue_on_due_date(row, today) ==
    IF row.status \in {CAPA_STATUS_COMPLETED, CAPA_STATUS_VERIFIED, CAPA_STATUS_CLOSED}
    THEN FALSE
    ELSE row.due_date <= today

\* CAPA.is_overdue() read on the day `today`
capa_is_overdue(row, today) ==
    IF row.status \in {CAPA_STATUS_COMPLETED, CAPA_STATUS_VERIFIED, CAPA_STATUS_CLOSED}
    THEN FALSE
    ELSE row.due_date < today

\* a caller asks whether CAPA id is overdue
CapaIsOverdue(id) ==
    /\ id \in DOMAIN capas
    /\ resp' = Response("capa_is_overdue", id, None,
                        capa_is_overdue(capas[id], now \div 24), capas[id].reference)
    /\ UNCHANGED <<incidents, capas, nextIncidentId, nextCapaId, year, now, issued, pc, obj, risks, notifyVars, evidenceVars>>

\* DELETE /api/capas/{id}/: the CAPA's evidence rows are deleted with it
DeleteCapa(id) ==
    /\ id \in DOMAIN capas
    /\ capas' = DeleteRows(capas, {id})
    /\ evidence' = DeleteRows(evidence, EvidenceOf({id}))
    /\ resp' = Response("delete_capa", id, None, TRUE, capas[id].reference)
    /\ UNCHANGED <<incidents, nextIncidentId, nextCapaId, year, now, issued, pc, obj, risks,
                   notifyVars, nextEvidenceId, files>>

----------------------------------------------------------------------------
(* Evidence handlers.  A stored file is known by its name; the storage gives
   every upload a name no other file has, here the new row's primary key *)

\* Evidence.save() of an upload attached to CAPA capa: the FileField writes
\* the file to the storage, then the row is inserted
UploadEvidence(capa, limit) ==
    /\ capa \in DOMAIN capas
    /\ nextEvidenceId <= limit
    /\ files' = files \cup {nextEvidenceId}
    /\ evidence' = WriteRow(evidence, nextEvidenceId, [capa |-> capa, file |-> nextEvidenceId])
    /\ nextEvidenceId' = nextEvidenceId + 1
    /\ resp' = Response("upload_evidence", nextEvidenceId, None, TRUE, NoReference)
    /\ UNCHANGED <<incidents, capas, nextIncidentId, nextCapaId, year, now, issued, pc, obj, risks,
                   notifyVars>>

\* Evidence.delete(): os.remove of the file if it is there, then the row
DeleteEvidence(id) ==
    /\ id \in DOMAIN evidence
    /\ files' = files \ {evidence[id].file}
    /\ evidence' = DeleteRows(evidence, {id})
    /\ resp' = Response("delete_evidence", id, None, TRUE, NoReference)
    /\ UNCHANGED <<incidents, capas, nextIncidentId, nextCapaId, year, now, issued, pc, obj, risks,
                   notifyVars, nextEvidenceId>>

----------------------------------------------------------------------------
(* Risk assessment handlers.  A row of risks is keyed by its incident, the
   primary key of the one-to-one relation *)

\* mutant of risk_category: the upper end of each band belongs to the next
risk_category_below(risk_level) ==
    IF risk_level < 5 THEN VERY_LOW
    ELSE IF risk_level < 10 THEN LOW
    ELSE IF risk_level < 15 THEN MEDIUM
    ELSE IF risk_level < 20 THEN HIGH
    ELSE CRITICAL

\* the if-chain of RiskAssessment.save()
risk_category(risk_level) ==
    IF risk_level <= 5 THEN VERY_LOW
    ELSE IF risk_level <= 10 THEN LOW
    ELSE IF risk_level <= 15 THEN MEDIUM
    ELSE IF risk_level <= 20 THEN HIGH
    ELSE CRITICAL

\* mutant of risk_save: a score that is already set is kept
risk_save_once(row) ==
    IF row.risk_level # 0 THEN row
    ELSE [row EXCEPT !.risk_level = row.probability * row.impact,
                     !.risk_category = risk_category(row.probability * row.impact)]

\* RiskAssessment.save(): the instance as super().save() writes it
risk_save(row) ==
    [row EXCEPT !.risk_level = row.probability * row.impact,
                !.risk_category = risk_category(row.probability * row.impact)]

\* mutant of valid_rating: no upper limit
valid_rating_unbounded(value) == MinRating <= value

\* validate_probability / validate_impact, and the fields' validators
valid_rating(value) == MinRating <= value /\ value <= MaxRating

read_only_fields == {"risk_level", "risk_category"}

\* the request's data without the read-only fields
validated_data(data) == [f \in DOMAIN data \ read_only_fields |-> data[f]]

\* a RiskAssessment that has not been saved
NewRisk == [probability |-> 0, impact |-> 0, risk_level |-> 0, risk_category |-> ""]

\* the instance with the validated data set on it
SetAttributes(instance, validated) ==
    [f \in DOMAIN instance |-> IF f \in DOMAIN validated THEN validated[f] ELSE instance[f]]

\* is_valid() of RiskAssessmentSerializer
is_valid(data) == valid_rating(data.probability) /\ valid_rating(data.impact)

\* POST /api/risk-assessments/: refused when the data is invalid or the
\* incident already has an assessment
CreateRisk(incident, data) ==
    LET ok == is_valid(data) /\ incident \notin DOMAIN risks
    IN  /\ incident \in DOMAIN incidents
        /\ risks' = IF ok
                     THEN WriteRow(risks, incident,
                                   risk_save(SetAttributes(NewRisk, validated_data(data))))
                     ELSE risks
        /\ resp' = [Response("create_risk", incident, None, ok, incidents[incident].reference)
                        EXCEPT !.args = <<data.probability, data.impact>>]
        /\ UNCHANGED <<incidents, capas, nextIncidentId, nextCapaId, year, now, issued, pc, obj, notifyVars, evidenceVars>>

\* PUT/PATCH /api/risk-assessments/{incident}/
UpdateRisk(incident, data) ==
    LET ok == is_valid(data)
    IN  /\ incident \in DOMAIN risks
        /\ risks' = IF ok
                     THEN WriteRow(risks, incident,
                                   risk_save(SetAttributes(risks[incident], validated_data(data))))
                     ELSE risks
        /\ resp' = [Response("update_risk", incident, None, ok, incidents[incident].reference)
                        EXCEPT !.args = <<data.probability, data.impact>>]
        /\ UNCHANGED <<incidents, capas, nextIncidentId, nextCapaId, year, now, issued, pc, obj, notifyVars, evidenceVars>>

\* DELETE /api/risk-assessments/{incident}/
DeleteRisk(incident) ==
    /\ incident \in DOMAIN risks
    /\ risks' = DeleteRows(risks, {incident})
    /\ resp' = Response("delete_risk", incident, None, TRUE, incidents[incident].reference)
    /\ UNCHANGED <<incidents, capas, nextIncidentId, nextCapaId, year, now, issued, pc, obj, notifyVars, evidenceVars>>

----------------------------------------------------------------------------
(* Incident writes with the broker and the worker in the model.  A task is
   queued until the worker has run it to an end: done when the body returned,
   failed when retry() gave up *)

NewTask(incident_id, notification_type) ==
    [incident_id |-> incident_id, notification_type |-> notification_type,
     retries |-> 0, state |-> "queued"]

\* send_incident_notification.delay(...): the broker takes the task, or the
\* call raises
Delay(accepted, incident_id, notification_type) ==
    IF accepted THEN Append(tasks, NewTask(incident_id, notification_type)) ELSE tasks

\* perform_create: serializer.save(), then delay(); an exception of delay()
\* leaves the handler after the row was written
PerformCreate(status, assigned_to, limit, accepted) ==
    LET saved == Save(incidents, "INC", year, nextIncidentId, NewIncident(status, assigned_to))
    IN  /\ Len(issued["INC"]) < limit
        /\ Len(tasks) < MaxTasks
        /\ incidents' = saved.table
        /\ nextIncidentId' = IF saved.ok THEN nextIncidentId + 1 ELSE nextIncidentId
        /\ issued' = IF saved.ok THEN Issue(saved.reference) ELSE issued
        /\ tasks' = IF saved.ok THEN Delay(accepted, nextIncidentId, "created") ELSE tasks
        /\ resp' = [Response("create_incident", nextIncidentId, None,
                             saved.ok /\ accepted, saved.reference)
                        EXCEPT !.queued = IF saved.ok /\ accepted THEN {"created"} ELSE {}]
        /\ UNCHANGED <<capas, nextCapaId, year, now, pc, obj, risks, notifications, evidenceVars>>

\* perform_update: serializer.save(), then delay() when the incident has an
\* assignee
PerformUpdate(id, status, assigned_to, accepted) ==
    LET saved == Save(incidents, "INC", year, id,
                      [incidents[id] EXCEPT !.status = status, !.assigned_to = assigned_to])
        notify == saved.ok /\ assigned_to # None
    IN  /\ id \in DOMAIN incidents
        /\ assigned_to # None => Len(tasks) < MaxTasks
        /\ incidents' = saved.table
        /\ tasks' = IF notify THEN Delay(accepted, id, "assigned") ELSE tasks
        /\ resp' = [Response("update_incident", id, None,
                             saved.ok /\ (notify => accepted), saved.reference)
                        EXCEPT !.queued = IF notify /\ accepted THEN {"assigned"} ELSE {}]
        /\ UNCHANGED <<capas, nextIncidentId, nextCapaId, year, now, issued, pc, obj, risks,
                       notifications, evidenceVars>>

\* mutant of retry: the task is queued again whatever its count
retry_always(task) == [task EXCEPT !.retries = @ + 1]

\* self.retry(exc=exc, countdown=60) of a task with max_retries=3: queued
\* again with one more retry, or the exception is raised for good
retry(task) ==
    IF task.retries + 1 > MaxRetries
    THEN [task EXCEPT !.state = "failed"]
    ELSE [task EXCEPT !.retries = @ + 1]

\* the body of send_incident_notification: Incident.objects.get raises when
\* the incident is gone, sending raises when the mail is not delivered, and
\* every exception goes to retry()
send_incident_notification(task, delivered) ==
    IF task.incident_id \notin DOMAIN incidents THEN retry(task)
    ELSE IF task.notification_type = "assigned" /\ incidents[task.incident_id].assigned_to = None
    THEN [task EXCEPT !.state = "done"]
    ELSE IF delivered THEN [task EXCEPT !.state = "done"]
    ELSE retry(task)

\* the worker runs queued task t
RunTask(t, delivered) ==
    /\ t \in DOMAIN tasks
    /\ tasks[t].state = "queued"
    /\ tasks' = [tasks EXCEPT ![t] = send_incident_notification(@, delivered)]
    /\ resp' = Response("run_task", t, None, delivered, NoReference)
    /\ UNCHANGED <<incidents, capas, nextIncidentId, nextCapaId, year, now, issued, pc, obj, risks,
                   notifications, evidenceVars>>

----------------------------------------------------------------------------
(* Listings of overdue records; the response carries the ids listed *)

Listing(op, ids) == [Response(op, 0, None, TRUE, NoReference) EXCEPT !.args = <<ids>>]

\* CAPAViewSet.overdue: filter(due_date__lt=today, status__in=['OPEN', 'IN_PROGRESS'])
overdue_capas(today) ==
    {i \in DOMAIN capas :
        /\ capas[i].due_date < today
        /\ capas[i].status \in {CAPA_STATUS_OPEN, CAPA_STATUS_IN_PROGRESS}}

OverdueCapas ==
    /\ resp' = Listing("overdue_capas", overdue_capas(now \div 24))
    /\ UNCHANGED <<incidents, capas, nextIncidentId, nextCapaId, year, now, issued, pc, obj, risks,
                   notifyVars, evidenceVars>>

\* CAPAFilter.filter_overdue: the same filter for a true value, its
\* complement (exclude) for a false one
capa_filter_overdue(value, today) ==
    IF value THEN overdue_capas(today) ELSE DOMAIN capas \ overdue_capas(today)

FilterCapasOverdue(value) ==
    /\ resp' = [Listing("filter_capas_overdue", capa_filter_overdue(value, now \div 24))
                    EXCEPT !.ok = value]
    /\ UNCHANGED <<incidents, capas, nextIncidentId, nextCapaId, year, now, issued, pc, obj, risks,
                   notifyVars, evidenceVars>>

\* IncidentViewSet.overdue: SUBMITTED or UNDER_INVESTIGATION and
\* reported_date < now - timedelta(days=2)
overdue_incidents(at) ==
    {i \in DOMAIN incidents :
        /\ incidents[i].status \in {STATUS_SUBMITTED, STATUS_UNDER_INVESTIGATION}
        /\ incidents[i].reported_date < at - 2 * 24}

OverdueIncidents ==
    /\ resp' = Listing("overdue_incidents", overdue_incidents(now))
    /\ UNCHANGED <<incidents, capas, nextIncidentId, nextCapaId, year, now, issued, pc, obj, risks,
                   notifyVars, evidenceVars>>

\* IncidentFilter.filter_overdue: the whole queryset unless the value is
\* true; else SUBMITTED before now - 2 days or UNDER_INVESTIGATION before
\* now - 7 days
incident_filter_overdue(value, at) ==
    IF ~value THEN DOMAIN incidents
    ELSE {i \in DOMAIN incidents :
            \/ incidents[i].status = STATUS_SUBMITTED /\ incidents[i].reported_date < at - 2 * 24
            \/ incidents[i].status = STATUS_UNDER_INVESTIGATION
                    /\ incidents[i].reported_date < at - 7 * 24}

FilterIncidentsOverdue(value) ==
    /\ resp' = [Listing("filter_incidents_overdue", incident_filter_overdue(value, now))
                    EXCEPT !.ok = value]
    /\ UNCHANGED <<incidents, capas, nextIncidentId, nextCapaId, year, now, issued, pc, obj, risks,
                   notifyVars, evidenceVars>>

----------------------------------------------------------------------------
(* Notifications *)

TYPE_CAPA_OVERDUE == "CAPA_OVERDUE"
TYPE_SYSTEM == "SYSTEM"

\* Notification.objects.create: is_read defaults to False, read_at to null
NewNotification(recipient, notification_type) ==
    [recipient |-> recipient, notification_type |-> notification_type,
     is_read |-> FALSE, read_at |-> NoDate]

\* the id the table gives to its next row (no notification is deleted here)
NextNotificationId == Cardinality(DOMAIN notifications) + 1

\* Notification.create_notification
create_notification(recipient, notification_type) ==
    WriteRow(notifications, NextNotificationId, NewNotification(recipient, notification_type))

\* the system creates a notification for some user
CreateNotification(recipient, limit) ==
    /\ NextNotificationId <= limit
    /\ notifications' = create_notification(recipient, TYPE_SYSTEM)
    /\ resp' = Response("create_notification", NextNotificationId, recipient, TRUE, NoReference)
    /\ UNCHANGED <<incidents, capas, nextIncidentId, nextCapaId, year, now, issued, pc, obj, risks,
                   tasks, evidenceVars>>

\* the responsible person of a CAPA is written (serializer field, admin form)
AssignCapa(id, person) ==
    LET saved == Save(capas, "CAPA", year, id, [capas[id] EXCEPT !.responsible_person = person])
    IN  /\ id \in DOMAIN capas
        /\ capas' = saved.table
        /\ resp' = Response("assign_capa", id, person, saved.ok, saved.reference)
        /\ UNCHANGED <<incidents, nextIncidentId, nextCapaId, year, now, issued, pc, obj, risks,
                       notifyVars, evidenceVars>>

\* mutant of notify_capa_overdue: a CAPA without responsible person is not skipped
notify_capa_overdue_always(capa) == create_notification(capa.responsible_person, TYPE_CAPA_OVERDUE)

\* Notification.notify_capa_overdue
notify_capa_overdue(capa) ==
    IF capa.responsible_person # None
    THEN create_notification(capa.responsible_person, TYPE_CAPA_OVERDUE)
    ELSE notifications

NotifyCapaOverdue(id, limit) ==
    /\ id \in DOMAIN capas
    /\ NextNotificationId <= limit
    /\ notifications' = notify_capa_overdue(capas[id])
    /\ resp' = Response("notify_capa_overdue", id, None, notifications' # notifications, NoReference)
    /\ UNCHANGED <<incidents, capas, nextIncidentId, nextCapaId, year, now, issued, pc, obj, risks,
                   tasks, evidenceVars>>

\* mutant of mark_as_read: the time of reading is written again on a read row
mark_as_read_again(row) == [row EXCEPT !.is_read = TRUE, !.read_at = now]

\* Notification.mark_as_read: the row after the call
mark_as_read(row) ==
    IF ~row.is_read THEN [row EXCEPT !.is_read = TRUE, !.read_at = now] ELSE row

\* Notification.mark_as_unread: the row after the call
mark_as_unread(row) ==
    IF row.is_read THEN [row EXCEPT !.is_read = FALSE, !.read_at = NoDate] ELSE row

\* notification.mark_as_read() on one row; ok is the value it returns
MarkAsRead(id) ==
    /\ id \in DOMAIN notifications
    /\ notifications' = [notifications EXCEPT ![id] = mark_as_read(@)]
    /\ resp' = Response("mark_as_read", id, None, notifications'[id] # notifications[id], NoReference)
    /\ UNCHANGED <<incidents, capas, nextIncidentId, nextCapaId, year, now, issued, pc, obj, risks,
                   tasks, evidenceVars>>

\* notification.mark_as_unread() on one row; ok is the value it returns
MarkAsUnread(id) ==
    /\ id \in DOMAIN notifications
    /\ notifications' = [notifications EXCEPT ![id] = mark_as_unread(@)]
    /\ resp' = Response("mark_as_unread", id, None, notifications'[id] # notifications[id], NoReference)
    /\ UNCHANGED <<incidents, capas, nextIncidentId, nextCapaId, year, now, issued, pc, obj, risks,
                   tasks, evidenceVars>>

\* mutant of mark_all_read: the filter on the recipient is left out
mark_all_read_of_everyone(user) ==
    [i \in DOMAIN notifications |->
        IF ~notifications[i].is_read
        THEN [notifications[i] EXCEPT !.is_read = TRUE, !.read_at = now]
        ELSE notifications[i]]

\* filter(recipient=request.user, is_read=False).update(is_read=True, read_at=now)
mark_all_read(user) ==
    [i \in DOMAIN notifications |->
        IF notifications[i].recipient = user /\ ~notifications[i].is_read
        THEN [notifications[i] EXCEPT !.is_read = TRUE, !.read_at = now]
        ELSE notifications[i]]

MarkAllRead(user) ==
    /\ notifications' = mark_all_read(user)
    /\ resp' = Response("mark_all_read", 0, user, TRUE, NoReference)
    /\ UNCHANGED <<incidents, capas, nextIncidentId, nextCapaId, year, now, issued, pc, obj, risks,
                   tasks, evidenceVars>>

----------------------------------------------------------------------------
(* Clocks *)

\* the calendar year read by datetime.now().year moves on
NewYear ==
    /\ year < BaseYear + MaxYears
    /\ year' = year + 1
    /\ resp' = Response("new_year", 0, None, TRUE, NoReference)
    /\ UNCHANGED <<incidents, capas, nextIncidentId, nextCapaId, now, issued, pc, obj, risks, notifyVars, evidenceVars>>

\* timezone.now() moves on by `hours`
Tick(hours, limit) ==
    /\ now + hours <= limit
    /\ now' = now + hours
    /\ resp' = Response("tick", 0, None, TRUE, NoReference)
    /\ UNCHANGED <<incidents, capas, nextIncidentId, nextCapaId, year, issued, pc, obj, risks, notifyVars, evidenceVars>>

----------------------------------------------------------------------------
(* Concurrent creations: each request p runs save() of a new instance; the
   query for the last reference and the INSERT are separate database
   statements, and other requests run between them *)

Table(kind) == IF kind = "INC" THEN incidents ELSE capas

\* save() up to the assignment of self.reference
GenerateReference(p, kind, incident) ==
    /\ pc[p] = "idle"
    /\ kind = "CAPA" => incident \in DOMAIN incidents
    /\ obj' = [obj EXCEPT ![p] =
                  [kind |-> kind,
                   reference |-> SaveReference(Table(kind), kind, year, NoReference),
                   incident |-> IF kind = "CAPA" THEN incident ELSE 0,
                   attempts |-> obj[p].attempts + 1]]
    /\ pc' = [pc EXCEPT ![p] = "saving"]
    /\ UNCHANGED <<incidents, capas, nextIncidentId, nextCapaId, year, now, resp, issued, risks, notifyVars, evidenceVars>>

\* super().save(): the INSERT, rejected by the unique constraint on a collision
InsertRow(p) ==
    LET kind == obj[p].kind
        id == IF kind = "INC" THEN nextIncidentId ELSE nextCapaId
        row == IF kind = "INC"
               THEN [NewIncident(STATUS_DRAFT, None) EXCEPT !.reference = obj[p].reference]
               ELSE [NewCapa(obj[p].incident, CAPA_STATUS_OPEN) EXCEPT !.reference = obj[p].reference]
        saved == Save(Table(kind), kind, year, id, row)
    IN  /\ pc[p] = "saving"
        /\ pc' = [pc EXCEPT ![p] = IF saved.ok THEN "done" ELSE "failed"]
        /\ incidents' = IF kind = "INC" THEN saved.table ELSE incidents
        /\ capas' = IF kind = "CAPA" THEN saved.table ELSE capas
        /\ nextIncidentId' = IF kind = "INC" /\ saved.ok THEN nextIncidentId + 1 ELSE nextIncidentId
        /\ nextCapaId' = IF kind = "CAPA" /\ saved.ok THEN nextCapaId + 1 ELSE nextCapaId
        /\ issued' = IF saved.ok THEN Issue(saved.reference) ELSE issued
        /\ UNCHANGED <<year, now, resp, obj, risks, notifyVars, evidenceVars>>

----------------------------------------------------------------------------
(* Concurrent complete requests: each request p loads the CAPA, then runs
   complete() on its own in-memory instance; nothing locks the row, and other
   requests run between the two steps *)

\* capa = self.get_object()
GetObject(p, id) ==
    /\ pc[p] = "idle"
    /\ id \in DOMAIN capas
    /\ obj' = [obj EXCEPT ![p] = [id |-> id, row |-> capas[id], success |-> FALSE]]
    /\ pc' = [pc EXCEPT ![p] = "loaded"]
    /\ UNCHANGED <<incidents, capas, nextIncidentId, nextCapaId, year, now, resp, issued, risks, notifyVars, evidenceVars>>

\* success = capa.complete(request.user): the status tested is the one that
\* was loaded, and save() writes every field of the instance
CompleteLoaded(p) ==
    LET id == obj[p].id
        done == complete(WriteRow(capas, id, obj[p].row), year, now \div 24, id)
    IN  /\ pc[p] = "loaded"
        /\ capas' = IF done.ok THEN done.table ELSE capas
        /\ obj' = [obj EXCEPT ![p].success = done.ok]
        /\ pc' = [pc EXCEPT ![p] = "done"]
        /\ UNCHANGED <<incidents, nextIncidentId, nextCapaId, year, now, resp, issued, risks, notifyVars, evidenceVars>>

----------------------------------------------------------------------------
(* Initial states *)

EmptyTable == [i \in {} |-> NoReference]

\* the largest number the PadWidth digits of a reference hold
LastPadded == 10^PadWidth - 1

InitCommon ==
    /\ year = BaseYear
    /\ now = 0
    /\ resp = Response("init", 0, None, TRUE, NoReference)
    /\ issued = [prefix \in {"INC", "CAPA"} |-> <<>>]
    /\ pc = [p \in Procs |-> "idle"]
    /\ obj = [p \in Procs |-> [kind |-> "", reference |-> NoReference, incident |-> 0, attempts |-> 0]]
    /\ risks = EmptyTable
    /\ tasks = <<>>
    /\ notifications = EmptyTable
    /\ evidence = EmptyTable
    /\ nextEvidenceId = 1
    /\ files = {}

\* a fresh database
InitEmpty ==
    /\ incidents = EmptyTable
    /\ capas = EmptyTable
    /\ nextIncidentId = 1
    /\ nextCapaId = 1

\* a database late in a busy year: rows 1..LastPadded were created and all
\* but the last one deleted
InitLate ==
    /\ incidents = WriteRow(EmptyTable, LastPadded,
                            [reference |-> MakeReference("INC", BaseYear, LastPadded),
                             status |-> STATUS_CLOSED, assigned_to |-> None,
                             reported_date |-> 0])
    /\ capas = WriteRow(EmptyTable, LastPadded,
                        [NewCapa(LastPadded, CAPA_STATUS_CLOSED)
                            EXCEPT !.reference = MakeReference("CAPA", BaseYear, LastPadded)])
    /\ nextIncidentId = LastPadded + 1
    /\ nextCapaId = LastPadded + 1

Init == InitCommon /\ InitEmpty

\* sequence numbers a table may hold after creations and deletions: around
\* every change of the number of digits up to the padded width
StoredNumbers == {1, 2, 9, 10, 99, 100, LastPadded - 1, LastPadded}
StoredCapaNumbers == {9, 10, LastPadded - 1, LastPadded}

\* the numbers of S on the ids 1..n, the highest number on the lowest id
Seated(S) ==
    CHOOSE f \in [1..Cardinality(S) -> S] :
        \A i, j \in 1..Cardinality(S) : i < j => f[i] > f[j]

\* tables that hold any few of these numbers in the current year
InitLast ==
    /\ InitCommon
    /\ \E S \in SUBSET StoredNumbers, T \in SUBSET StoredCapaNumbers :
          /\ Cardinality(S) \in 1..MaxStored
          /\ Cardinality(T) <= MaxStoredCapas
          /\ incidents = [i \in 1..Cardinality(S) |->
                            [reference |-> MakeReference("INC", BaseYear, Seated(S)[i]),
                             status |-> STATUS_CLOSED, assigned_to |-> None, reported_date |-> 0]]
          /\ capas = [c \in 1..Cardinality(T) |->
                        [NewCapa(1, CAPA_STATUS_CLOSED)
                            EXCEPT !.reference = MakeReference("CAPA", BaseYear, Seated(T)[c])]]
          /\ nextIncidentId = Cardinality(S) + 1
          /\ nextCapaId = Cardinality(T) + 1

InitSeq == InitCommon /\ (InitEmpty \/ InitLate)

\* one incident, reported at hour 0, in any status
InitOverdue ==
    /\ InitCommon
    /\ \E status \in STATUS_CHOICES :
           incidents = WriteRow(EmptyTable, 1,
                                [NewIncident(status, None)
                                    EXCEPT !.reference = MakeReference("INC", BaseYear, 1)])
    /\ capas = EmptyTable
    /\ nextIncidentId = 2
    /\ nextCapaId = 1

\* one SUBMITTED incident and no CAPA yet
InitCapa ==
    /\ InitCommon
    /\ incidents = WriteRow(EmptyTable, 1,
                            [NewIncident(STATUS_SUBMITTED, None)
                                EXCEPT !.reference = MakeReference("INC", BaseYear, 1)])
    /\ capas = EmptyTable
    /\ nextIncidentId = 2
    /\ nextCapaId = 1

\* one CAPA in any status, due on any of the first days
InitCapaOverdue ==
    /\ InitCommon
    /\ incidents = WriteRow(EmptyTable, 1,
                            [NewIncident(STATUS_SUBMITTED, None)
                                EXCEPT !.reference = MakeReference("INC", BaseYear, 1)])
    /\ \E status \in CAPA_STATUS_CHOICES, due_date \in 0..MaxCapaDays :
           capas = WriteRow(EmptyTable, 1,
                            [NewCapa(1, status)
                                EXCEPT !.reference = MakeReference("CAPA", BaseYear, 1),
                                       !.due_date = due_date])
    /\ nextIncidentId = 2
    /\ nextCapaId = 2

\* one CAPA that can be completed, and requests that have not loaded it yet
InitComplete ==
    /\ year = BaseYear
    /\ now = 0
    /\ resp = Response("init", 0, None, TRUE, NoReference)
    /\ issued = [prefix \in {"INC", "CAPA"} |-> <<>>]
    /\ risks = EmptyTable
    /\ tasks = <<>>
    /\ notifications = EmptyTable
    /\ evidence = EmptyTable
    /\ nextEvidenceId = 1
    /\ files = {}
    /\ incidents = WriteRow(EmptyTable, 1,
                            [NewIncident(STATUS_SUBMITTED, None)
                                EXCEPT !.reference = MakeReference("INC", BaseYear, 1)])
    /\ \E status \in {CAPA_STATUS_OPEN, CAPA_STATUS_IN_PROGRESS} :
           capas = WriteRow(EmptyTable, 1,
                            [NewCapa(1, status)
                                EXCEPT !.reference = MakeReference("CAPA", BaseYear, 1)])
    /\ nextIncidentId = 2
    /\ nextCapaId = 2
    /\ pc = [p \in Procs |-> "idle"]
    /\ obj = [p \in Procs |-> [id |-> 0, row |-> NewCapa(1, CAPA_STATUS_OPEN), success |-> FALSE]]

----------------------------------------------------------------------------
(* Specifications *)

\* the incident workflow: every handler of the API and the admin that writes
\* an incident, one request at a time
Next ==
    \/ \E status \in STATUS_CHOICES, assigned_to \in Users \cup {None} :
           CreateIncident(status, assigned_to, MaxIncidents)
    \/ \E id \in DOMAIN incidents, status \in STATUS_CHOICES, assigned_to \in Users \cup {None} :
           UpdateIncident(id, status, assigned_to)
    \/ \E id \in DOMAIN incidents, user \in Users : ValidateIncident(id, user)
    \/ \E id \in DOMAIN incidents : CloseIncident(id)
    \/ \E id \in DOMAIN incidents : DeleteIncident(id)
    \/ \E ids \in SUBSET DOMAIN incidents : mark_as_validated(ids)
    \/ \E ids \in SUBSET DOMAIN incidents : mark_as_closed(ids)

Spec == Init /\ [][Next]_vars

\* every operation that saves an incident or a CAPA, across a change of year
NextRef ==
    \/ CreateIncident(STATUS_SUBMITTED, None, MaxRefIncidents)
    \/ \E id \in DOMAIN incidents : UpdateIncident(id, STATUS_UNDER_INVESTIGATION, None)
    \/ \E id \in DOMAIN incidents : ValidateIncident(id, "u1")
    \/ \E id \in DOMAIN incidents : CloseIncident(id)
    \/ \E id \in DOMAIN incidents : DeleteIncident(id)
    \/ \E incident \in DOMAIN incidents : CreateCapa(incident, CAPA_STATUS_OPEN, MaxRefCapas)
    \/ \E id \in DOMAIN capas : CompleteCapa(id)
    \/ \E id \in DOMAIN capas : VerifyCapa(id, "checked")
    \/ \E id \in DOMAIN capas : DeleteCapa(id)
    \/ NewYear

SpecRef == Init /\ [][NextRef]_vars

\* reference numbering: creations and deletions one at a time, across a
\* change of year, from a fresh database or from one late in a busy year
NextSeq ==
    \/ CreateIncident(STATUS_DRAFT, None, MaxSeqIncidents)
    \/ \E id \in DOMAIN incidents : DeleteIncident(id)
    \/ \E incident \in DOMAIN incidents : CreateCapa(incident, CAPA_STATUS_OPEN, MaxSeqCapas)
    \/ \E id \in DOMAIN capas : DeleteCapa(id)
    \/ NewYear

SpecSeq == InitSeq /\ [][NextSeq]_vars

\* concurrent creations of incidents and CAPAs
NextConc ==
    \/ \E p \in Procs, kind \in {"INC", "CAPA"}, incident \in DOMAIN incidents \cup {0} :
           GenerateReference(p, kind, incident)
    \/ \E p \in Procs : InsertRow(p)

SpecConc == Init /\ [][NextConc]_vars

\* the overdue query as the clock advances hour by hour
NextOverdue ==
    \/ Tick(1, MaxElapsedHours)
    \/ \E id \in DOMAIN incidents : IsOverdue(id)

SpecOverdue == InitOverdue /\ [][NextOverdue]_vars

\* what a request can send for a risk assessment: any rating from 0 to
\* MaxRatingInput, and a score and category of its own choosing
RiskData ==
    [probability : 0..MaxRatingInput, impact : 0..MaxRatingInput,
     risk_level : {MaxRating * MaxRating}, risk_category : {CRITICAL}]

\* incident writes that queue a notification, the broker reachable or not,
\* and the worker running the queued tasks, the mail delivered or not
NextNotify ==
    \/ \E assigned_to \in Users \cup {None}, accepted \in BOOLEAN :
           PerformCreate(STATUS_SUBMITTED, assigned_to, MaxRefIncidents, accepted)
    \/ \E id \in DOMAIN incidents, assigned_to \in Users \cup {None}, accepted \in BOOLEAN :
           PerformUpdate(id, incidents[id].status, assigned_to, accepted)
    \/ \E id \in DOMAIN incidents : DeleteIncident(id)
    \/ \E t \in DOMAIN tasks, delivered \in BOOLEAN : RunTask(t, delivered)

SpecNotify == Init /\ [][NextNotify]_vars

\* the worker does not leave a queued task waiting for ever
SpecNotifyFair ==
    SpecNotify /\ \A t \in 1..MaxTasks : WF_vars(\E delivered \in BOOLEAN : RunTask(t, delivered))

\* notifications created by the system and marked by their readers
NextRead ==
    \/ \E user \in Users : CreateNotification(user, MaxNotifications)
    \/ \E id \in DOMAIN notifications : MarkAsRead(id)
    \/ \E id \in DOMAIN notifications : MarkAsUnread(id)
    \/ \E user \in Users : MarkAllRead(user)
    \/ \E hours \in {1} : Tick(hours, MaxReadHours)

SpecRead == Init /\ [][NextRead]_vars

\* overdue notifications for CAPAs with and without a responsible person
NextCapaNotify ==
    \/ \E incident \in DOMAIN incidents : CreateCapa(incident, CAPA_STATUS_OPEN, MaxCapas)
    \/ \E id \in DOMAIN capas, person \in Users \cup {None} : AssignCapa(id, person)
    \/ \E id \in DOMAIN capas : NotifyCapaOverdue(id, MaxOverdueNotifications)
    \/ \E id \in DOMAIN notifications : MarkAsRead(id)

SpecCapaNotify == InitCapa /\ [][NextCapaNotify]_vars

\* evidence uploaded to CAPAs, and every way an evidence row goes away
NextEvidence ==
    \/ \E incident \in DOMAIN incidents : CreateCapa(incident, CAPA_STATUS_OPEN, MaxEvidenceCapas)
    \/ \E capa \in DOMAIN capas : UploadEvidence(capa, MaxEvidence)
    \/ \E id \in DOMAIN evidence : DeleteEvidence(id)
    \/ \E id \in DOMAIN capas : DeleteCapa(id)
    \/ \E id \in DOMAIN incidents : DeleteIncident(id)
    \/ \E id \in DOMAIN capas : CompleteCapa(id)

SpecEvidence == InitCapa /\ [][NextEvidence]_vars

\* creations on tables whose numbers have gaps
NextLast ==
    \/ CreateIncident(STATUS_DRAFT, None, MaxLastCreates)
    \/ \E incident \in {1} : CreateCapa(incident, CAPA_STATUS_OPEN, MaxLastCreates)

SpecLast == InitLast /\ [][NextLast]_vars

\* the overdue listings of CAPAs next to CAPA.is_overdue, as days pass
NextCapaListing ==
    \/ Tick(1, 24 * (MaxCapaDays + 1) + 23)
    \/ \E id \in DOMAIN capas : CapaIsOverdue(id)
    \/ OverdueCapas
    \/ \E value \in BOOLEAN : FilterCapasOverdue(value)

SpecCapaListing == InitCapaOverdue /\ [][NextCapaListing]_vars

\* the overdue listings of incidents next to Incident.is_overdue, as hours pass
NextIncidentListing ==
    \/ Tick(1, MaxElapsedHours)
    \/ \E id \in DOMAIN incidents : IsOverdue(id)
    \/ OverdueIncidents
    \/ \E value \in BOOLEAN : FilterIncidentsOverdue(value)

SpecIncidentListing == InitOverdue /\ [][NextIncidentListing]_vars

\* CAPAs created without dates, open or already out of the workflow, and
\* driven by complete and verify while the clock advances
NextCapaDates ==
    \/ \E incident \in DOMAIN incidents,
          status \in {CAPA_STATUS_OPEN, CAPA_STATUS_CLOSED, CAPA_STATUS_CANCELLED} :
           CreateCapa(incident, status, MaxCapas)
    \/ \E id \in DOMAIN capas : CompleteCapa(id)
    \/ \E id \in DOMAIN capas, notes \in Notes : VerifyCapa(id, notes)
    \/ \E ids \in SUBSET DOMAIN capas : mark_completed(ids)
    \/ \E ids \in SUBSET DOMAIN capas : mark_verified(ids)
    \/ Tick(12, 24 * MaxCapaDays)

SpecCapaDates == InitCapa /\ [][NextCapaDates]_vars

\* every handler that writes a risk assessment
NextRisk ==
    \/ \E incident \in DOMAIN incidents, data \in RiskData : CreateRisk(incident, data)
    \/ \E incident \in DOMAIN risks, data \in RiskData : UpdateRisk(incident, data)
    \/ \E incident \in DOMAIN risks : DeleteRisk(incident)
    \/ \E id \in DOMAIN incidents : DeleteIncident(id)

SpecRisk == InitCapa /\ [][NextRisk]_vars

\* the CAPA workflow as the days pass: creation in any status, the complete
\* and verify endpoints and the admin's bulk actions
NextCapa ==
    \/ \E incident \in DOMAIN incidents, status \in CAPA_STATUS_CHOICES :
           CreateCapa(incident, status, MaxCapas)
    \/ \E id \in DOMAIN capas : CompleteCapa(id)
    \/ \E id \in DOMAIN capas, notes \in Notes : VerifyCapa(id, notes)
    \/ \E ids \in SUBSET DOMAIN capas : mark_completed(ids)
    \/ \E ids \in SUBSET DOMAIN capas : mark_verified(ids)
    \/ Tick(24, 24 * MaxCapaDays)

SpecCapa == InitCapa /\ [][NextCapa]_vars

\* the dates a request can give for a nullable DateField
DateInputs == {NoDate} \cup 0..MaxCapaDays

\* every handler of the API that writes a CAPA, as the days pass
NextCapaWrite ==
    \/ \E incident \in DOMAIN incidents, status \in CAPA_STATUS_CHOICES :
           CreateCapa(incident, status, MaxCapas)
    \/ \E id \in DOMAIN capas, status \in CAPA_STATUS_CHOICES,
          completion_date \in DateInputs, verification_date \in DateInputs, notes \in Notes :
           UpdateCapa(id, status, capas[id].due_date, completion_date, verification_date, notes)
    \/ \E id \in DOMAIN capas : CompleteCapa(id)
    \/ \E id \in DOMAIN capas, notes \in Notes : VerifyCapa(id, notes)
    \/ Tick(24, 24 * MaxCapaDays)

SpecCapaWrite == InitCapa /\ [][NextCapaWrite]_vars

\* the CAPA overdue query as the clock advances hour by hour, to the end of
\* the day after the last due date
NextCapaOverdue ==
    \/ Tick(1, 24 * (MaxCapaDays + 1) + 23)
    \/ \E id \in DOMAIN capas : CapaIsOverdue(id)

SpecCapaOverdue == InitCapaOverdue /\ [][NextCapaOverdue]_vars

\* concurrent complete requests on one CAPA as the days pass
NextComplete ==
    \/ \E p \in Procs, id \in DOMAIN capas : GetObject(p, id)
    \/ \E p \in Procs : CompleteLoaded(p)
    \/ Tick(24, 24 * MaxCapaDays)

SpecComplete == InitComplete /\ [][NextComplete]_vars

----------------------------------------------------------------------------
(* Properties *)

\* the sequence number a reference carries, read as a number
NumberOf(reference) == ParseNumber(reference.digits)

\* the numbers of the rows of a table that carry the prefix and the year
NumbersIn(table, prefix, current_year) ==
    {NumberOf(table[i].reference) :
        i \in {j \in DOMAIN table : table[j].reference.prefix = prefix
                                    /\ table[j].reference.year = current_year}}

\* the numerically highest of a set of numbers, 0 for the empty set
Highest(numbers) ==
    IF numbers = {} THEN 0 ELSE CHOOSE n \in numbers : \A m \in numbers : m <= n

UniqueReferences(table) ==
    \A i, j \in DOMAIN table : i # j => table[i].reference # table[j].reference

Finished(p) == pc[p] \in {"done", "failed"}

\* C1: once N concurrent incident creations have all finished, every one of
\* them has received a reference, no two received the same one, and the
\* numbers received are 1..N without gaps.
C1_ConcurrentCreationsDistinct ==
    LET creations == {p \in Procs : obj[p].kind = "INC"}
    IN  (\A p \in Procs : Finished(p)) =>
            /\ \A p \in creations : pc[p] = "done"
            /\ \A p, q \in creations : p # q => obj[p].reference # obj[q].reference
            /\ {NumberOf(obj[p].reference) : p \in creations} = 1..Cardinality(creations)

\* C2: in every reachable state no two incidents and no two CAPAs share a
\* reference, and an INSERT whose reference equals one already in the table
\* fails and leaves both tables as they were.
C2_UniqueAtConstraint ==
    /\ [](UniqueReferences(incidents) /\ UniqueReferences(capas))
    /\ [][\A p \in Procs :
            (/\ pc[p] = "saving"
             /\ pc'[p] # "saving"
             /\ \E i \in DOMAIN Table(obj[p].kind) :
                    Table(obj[p].kind)[i].reference = obj[p].reference)
            => (pc'[p] = "failed" /\ incidents' = incidents /\ capas' = capas)]_vars

\* C2 witness: a creation was rejected at the constraint while the row that
\* holds its reference is in the table
C2_Witness ==
    \E p \in Procs :
        /\ pc[p] = "failed"
        /\ \E i \in DOMAIN Table(obj[p].kind) :
               Table(obj[p].kind)[i].reference = obj[p].reference

\* C3: a creation fails only after it has computed a reference more than
\* once; one collision alone does not make it fail.
C3_RetriedBeforeFailing ==
    \A p \in Procs : pc[p] = "failed" => obj[p].attempts > 1

IsCreate(r) == r.op \in {"create_incident", "create_capa"}

PrefixOf(r) == IF r.op = "create_incident" THEN "INC" ELSE "CAPA"

TableOf(r) == IF r.op = "create_incident" THEN incidents ELSE capas

\* C4: a creation computes the reference prefix-year-n with n one more than
\* the numerically highest number among the rows of that prefix and year,
\* 1 if there is none.
C4_NextIsHighestPlusOne ==
    [][IsCreate(resp') =>
          /\ resp'.reference.prefix = PrefixOf(resp')
          /\ resp'.reference.year = year
          /\ NumberOf(resp'.reference)
                 = Highest(NumbersIn(TableOf(resp'), PrefixOf(resp'), year)) + 1]_vars

\* C4 as amended: the same, for a table whose numbers of that prefix and
\* year are all at most 99999; the creation then also succeeds.
C4_NextIsHighestPlusOneWithinWidth ==
    [][(/\ IsCreate(resp')
        /\ \A n \in NumbersIn(TableOf(resp'), PrefixOf(resp'), year) : n <= LastPadded)
       => /\ resp'.ok
          /\ resp'.reference.prefix = PrefixOf(resp')
          /\ resp'.reference.year = year
          /\ resp'.reference.digits = FormatNumber(NumberOf(resp'.reference))
          /\ NumberOf(resp'.reference)
                 = Highest(NumbersIn(TableOf(resp'), PrefixOf(resp'), year)) + 1]_vars

\* C4 witness: a creation in a later year, while rows of the earlier year and
\* of the other prefix exist, received number 1
C4_Witness ==
    /\ IsCreate(resp) /\ resp.ok
    /\ resp.reference.year > BaseYear
    /\ NumberOf(resp.reference) = 1
    /\ \E i \in DOMAIN incidents : incidents[i].reference.year = BaseYear
    /\ \E c \in DOMAIN capas : capas[c].reference.year = BaseYear

\* C5: of two references issued for the same prefix and year, the later one
\* carries the strictly greater number.
C5_IssuedIncreasing ==
    \A prefix \in DOMAIN issued :
        \A i, j \in 1..Len(issued[prefix]) :
            (i < j /\ issued[prefix][i].year = issued[prefix][j].year)
                => NumberOf(issued[prefix][i]) < NumberOf(issued[prefix][j])

\* C6: every stored row has a reference, and no step changes the reference
\* of a row that exists before and after it.
C6_ReferenceAssignedOnce ==
    /\ [](/\ \A i \in DOMAIN incidents : incidents[i].reference # NoReference
          /\ \A c \in DOMAIN capas : capas[c].reference # NoReference)
    /\ [][/\ \A i \in DOMAIN incidents \cap DOMAIN incidents' :
                incidents'[i].reference = incidents[i].reference
          /\ \A c \in DOMAIN capas \cap DOMAIN capas' :
                capas'[c].reference = capas[c].reference]_vars

\* C6 witness: a CAPA created in an earlier year has been saved again by
\* complete() in a later year
C6_Witness ==
    /\ resp.op = "complete_capa" /\ resp.ok
    /\ resp.id \in DOMAIN capas
    /\ capas[resp.id].status = CAPA_STATUS_COMPLETED
    /\ capas[resp.id].reference.year < year

\* C7: validate succeeds exactly from SUBMITTED or UNDER_INVESTIGATION and
\* then sets the status to VALIDATED and assigned_to to the actor, changing
\* nothing else; otherwise it fails and the table is as before.
C7_ValidateTransition ==
    [][resp'.op = "validate_incident" =>
          LET id == resp'.id
          IN  /\ resp'.ok <=> incidents[id].status \in {STATUS_SUBMITTED, STATUS_UNDER_INVESTIGATION}
              /\ resp'.ok => incidents' = [incidents EXCEPT ![id].status = STATUS_VALIDATED,
                                                            ![id].assigned_to = resp'.user]
              /\ ~resp'.ok => incidents' = incidents]_vars

\* C7 witness: a validate by an actor other than the previous assignee succeeded
C7_Witness ==
    /\ resp.op = "validate_incident" /\ resp.ok
    /\ incidents[resp.id].status = STATUS_VALIDATED
    /\ incidents[resp.id].assigned_to = "u2"

\* C8: close succeeds exactly from VALIDATED and then sets the status to
\* CLOSED, changing nothing else; otherwise it fails and the table is as before.
C8_CloseTransition ==
    [][resp'.op = "close_incident" =>
          LET id == resp'.id
          IN  /\ resp'.ok <=> incidents[id].status = STATUS_VALIDATED
              /\ resp'.ok => incidents' = [incidents EXCEPT ![id].status = STATUS_CLOSED]
              /\ ~resp'.ok => incidents' = incidents]_vars

\* C8 witness: a close of an incident that is already CLOSED failed
C8_Witness ==
    /\ resp.op = "close_incident" /\ ~resp.ok
    /\ incidents[resp.id].status = STATUS_CLOSED

\* position of a status in the workflow DRAFT .. CLOSED
Rank(status) ==
    CASE status = STATUS_DRAFT -> 0
      [] status = STATUS_SUBMITTED -> 1
      [] status = STATUS_UNDER_INVESTIGATION -> 2
      [] status = STATUS_VALIDATED -> 3
      [] status = STATUS_CLOSED -> 4

\* C9: no operation moves an incident to an earlier status.
C9_StatusNeverGoesBack ==
    [][\A i \in DOMAIN incidents \cap DOMAIN incidents' :
          Rank(incidents'[i].status) >= Rank(incidents[i].status)]_vars

\* C10: for a SUBMITTED incident is_overdue answers true exactly when more
\* than 48 hours have passed since reported_date.
C10_SubmittedOverdueAfter48h ==
    (resp.op = "is_overdue" /\ incidents[resp.id].status = STATUS_SUBMITTED)
        => (resp.ok <=> now - incidents[resp.id].reported_date > 48)

\* C11: for an UNDER_INVESTIGATION incident is_overdue answers true exactly
\* when more than 7 days (168 hours) have passed since reported_date; for a
\* DRAFT, VALIDATED or CLOSED incident it answers false; and asking never
\* changes the incident.
C11_InvestigationOverdueAfter7Days ==
    /\ [](resp.op = "is_overdue" =>
            LET row == incidents[resp.id]
            IN  /\ row.status = STATUS_UNDER_INVESTIGATION
                      => (resp.ok <=> now - row.reported_date > 7 * 24)
                /\ row.status \in {STATUS_DRAFT, STATUS_VALIDATED, STATUS_CLOSED}
                      => ~resp.ok)
    /\ [][resp'.op = "is_overdue" => incidents' = incidents]_vars

\* a CAPA row after a successful complete on day `today`
Completed(row, today) ==
    [row EXCEPT !.status = CAPA_STATUS_COMPLETED, !.completion_date = today]

\* C12: complete answers true exactly when the CAPA is OPEN or IN_PROGRESS and
\* then sets the status to COMPLETED and completion_date to the current date;
\* otherwise (a second call included) it answers false and leaves the CAPA as
\* it was.  The admin's bulk action does the same to each selected row.
C12_CompleteTransition ==
    [][/\ resp'.op = "complete_capa" =>
             LET id == resp'.id
             IN  /\ resp'.ok <=> capas[id].status \in {CAPA_STATUS_OPEN, CAPA_STATUS_IN_PROGRESS}
                 /\ resp'.ok => capas' = [capas EXCEPT ![id] = Completed(@, now \div 24)]
                 /\ ~resp'.ok => capas' = capas
       /\ resp'.op = "mark_completed" =>
             \A i \in DOMAIN capas :
                 \/ capas'[i] = capas[i]
                 \/ /\ capas[i].status \in {CAPA_STATUS_OPEN, CAPA_STATUS_IN_PROGRESS}
                    /\ capas'[i] = Completed(capas[i], now \div 24)]_vars

\* C12 witness: a second complete, on a later day, of a CAPA completed on day 0
\* was refused and the completion date is still day 0
C12_Witness ==
    /\ resp.op = "complete_capa" /\ ~resp.ok
    /\ now \div 24 > 0
    /\ capas[resp.id].status = CAPA_STATUS_COMPLETED
    /\ capas[resp.id].completion_date = 0

\* C13: verify succeeds exactly when the CAPA is COMPLETED and then sets the
\* status to VERIFIED, verification_date to the current date and
\* verification_notes to the notes given; otherwise it fails and leaves the
\* status, the verification date and the notes as they were.
C13_VerifyTransition ==
    [][resp'.op = "verify_capa" =>
          LET id == resp'.id
          IN  /\ resp'.ok <=> capas[id].status = CAPA_STATUS_COMPLETED
              /\ resp'.ok =>
                    /\ capas'[id].status = CAPA_STATUS_VERIFIED
                    /\ capas'[id].verification_date = now \div 24
                    /\ capas'[id].verification_notes = resp'.args[1]
                    /\ capas' = [capas EXCEPT ![id].status = CAPA_STATUS_VERIFIED,
                                              ![id].verification_date = now \div 24,
                                              ![id].verification_notes = resp'.args[1]]
              /\ ~resp'.ok =>
                    /\ capas'[id].status = capas[id].status
                    /\ capas'[id].verification_date = capas[id].verification_date
                    /\ capas'[id].verification_notes = capas[id].verification_notes]_vars

\* C13 witness: a CAPA completed on day 0 was verified on a later day with
\* notes, and a CAPA that is not COMPLETED is refused
C13_Witness ==
    /\ resp.op = "verify_capa" /\ resp.ok
    /\ resp.args = <<"checked">>
    /\ capas[resp.id].completion_date = 0
    /\ capas[resp.id].verification_date > 0

\* the requests whose complete() has returned, and those it returned true to
Returned == {p \in Procs : pc[p] = "done"}
Succeeded == {p \in Returned : obj[p].success}

\* C14: of the complete() calls made concurrently on one OPEN or IN_PROGRESS
\* CAPA, exactly one returns true under every interleaving: never two, and
\* once any has returned, one.
C14_OneCompleteSucceeds ==
    /\ Cardinality(Succeeded) <= 1
    /\ Returned # {} => Cardinality(Succeeded) = 1

\* C15: over create, update, complete and verify, completion_date is written
\* only by the transition into COMPLETED, and verification_date and
\* verification_notes only by the transition from COMPLETED to VERIFIED; a
\* created CAPA has none of the three set.
C15_DatesWrittenByTransitionsOnly ==
    [][/\ \A i \in DOMAIN capas \cap DOMAIN capas' :
             /\ capas'[i].completion_date # capas[i].completion_date
                   => /\ capas[i].status # CAPA_STATUS_COMPLETED
                      /\ capas'[i].status = CAPA_STATUS_COMPLETED
             /\ \/ capas'[i].verification_date # capas[i].verification_date
                \/ capas'[i].verification_notes # capas[i].verification_notes
                   => /\ capas[i].status = CAPA_STATUS_COMPLETED
                      /\ capas'[i].status = CAPA_STATUS_VERIFIED
       /\ \A i \in DOMAIN capas' \ DOMAIN capas :
             /\ capas'[i].completion_date = NoDate
             /\ capas'[i].verification_date = NoDate
             /\ capas'[i].verification_notes = ""]_vars

\* the statuses in which a CAPA can be overdue
Unfinished == {CAPA_STATUS_OPEN, CAPA_STATUS_IN_PROGRESS, CAPA_STATUS_CANCELLED}

\* C16: a CAPA's is_overdue answers true exactly when its status is none of
\* COMPLETED, VERIFIED, CLOSED and its due date is before today: in the
\* statuses OPEN, IN_PROGRESS and CANCELLED a CAPA due today is not overdue
\* and one due yesterday is.
C16_CapaOverdue ==
    resp.op = "capa_is_overdue" =>
        LET row == capas[resp.id]
            today == now \div 24
        IN  /\ resp.ok <=> (row.status \in Unfinished /\ row.due_date < today)
            /\ row.status \in Unfinished /\ row.due_date = today => ~resp.ok
            /\ row.status \in Unfinished /\ row.due_date = today - 1 => resp.ok
            /\ row.status \in CAPA_STATUS_CHOICES \ Unfinished => ~resp.ok

\* C16 witness: a CANCELLED CAPA due yesterday was found overdue
C16_Witness ==
    /\ resp.op = "capa_is_overdue" /\ resp.ok
    /\ capas[resp.id].status = CAPA_STATUS_CANCELLED
    /\ capas[resp.id].due_date = now \div 24 - 1

\* the documented bands of the risk matrix
Band(risk_level) ==
    CASE risk_level \in 1..5 -> VERY_LOW
      [] risk_level \in 6..10 -> LOW
      [] risk_level \in 11..15 -> MEDIUM
      [] risk_level \in 16..20 -> HIGH
      [] risk_level \in 21..25 -> CRITICAL

IsRiskSave(r) == r.op \in {"create_risk", "update_risk"}

Ratings == MinRating..MaxRating

\* C17: for probability and impact each in 1..5, saving a risk assessment
\* stores risk_level = probability * impact and the category of its band
\* (1-5 VERY_LOW, 6-10 LOW, 11-15 MEDIUM, 16-20 HIGH, 21-25 CRITICAL); the
\* save's if-chain gives the band of every level from 1 to 25, the boundary
\* values 5, 6, 10, 11, 15, 16, 20, 21 and 25 included.
C17_ScoreAndCategory ==
    /\ (IsRiskSave(resp) /\ resp.args[1] \in Ratings /\ resp.args[2] \in Ratings /\ resp.ok)
          => LET row == risks[resp.id]
                 product == resp.args[1] * resp.args[2]
             IN  /\ row.probability = resp.args[1]
                 /\ row.impact = resp.args[2]
                 /\ row.risk_level = product
                 /\ row.risk_category = Band(product)
    /\ \A risk_level \in 1..MaxRating * MaxRating :
          risk_category(risk_level) = Band(risk_level)

\* C17 witness: probability 2 and impact 3 were saved as level 6, LOW
C17_Witness ==
    /\ IsRiskSave(resp) /\ resp.ok
    /\ resp.args = <<2, 3>>
    /\ risks[resp.id].risk_level = 6
    /\ risks[resp.id].risk_category = LOW

\* C18: in every state of the table, after any creations and updates, each
\* row's risk_level is probability * impact and its risk_category is the
\* band of that level, whatever score and category the requests sent.
C18_ScoreDerived ==
    \A k \in DOMAIN risks :
        /\ risks[k].risk_level = risks[k].probability * risks[k].impact
        /\ risks[k].risk_category = Band(risks[k].probability * risks[k].impact)

\* C18 witness: an update that sent level 25, CRITICAL left a row scored
\* from its ratings 1 and 1
C18_Witness ==
    /\ resp.op = "update_risk" /\ resp.ok
    /\ risks[resp.id].risk_level = 1
    /\ risks[resp.id].risk_category = VERY_LOW

\* C19: a creation or update whose probability or impact is outside 1..5
\* fails and writes nothing, and no stored row has a probability or impact
\* outside 1..5 or a risk_level outside 1..25.
C19_RatingsValidated ==
    /\ [](\A k \in DOMAIN risks :
             /\ risks[k].probability \in 1..5
             /\ risks[k].impact \in 1..5
             /\ risks[k].risk_level \in 1..25)
    /\ [][(IsRiskSave(resp') /\ ~(resp'.args[1] \in 1..5 /\ resp'.args[2] \in 1..5))
             => (~resp'.ok /\ risks' = risks)]_vars

\* C19 witness: an update with probability 6 was refused and the row still
\* has its ratings
C19_Witness ==
    /\ resp.op = "update_risk" /\ ~resp.ok
    /\ resp.args[1] = 6 /\ resp.args[2] \in 1..5
    /\ risks[resp.id].probability = 5

\* C20: every successful validate queues an IncidentValidated notification
\* and every successful close an IncidentClosed notification; a validate or
\* close that fails queues none.
C20_TransitionsNotify ==
    /\ (resp.op = "validate_incident" /\ resp.ok) => "validated" \in resp.queued
    /\ (resp.op = "close_incident" /\ resp.ok) => "closed" \in resp.queued
    /\ (resp.op \in {"validate_incident", "close_incident"} /\ ~resp.ok) => resp.queued = {}

\* C21: a failure to queue or to send the notification of an incident write
\* is never shown to the caller of the write and never undoes it: whenever
\* the save of a create or an update has succeeded, the caller sees success
\* and the row is there, and no run of the email task changes an incident.
C21_NotificationFailureHidden ==
    [][/\ resp'.op = "create_incident" /\ resp'.id \in DOMAIN incidents' \ DOMAIN incidents
             => resp'.ok
       /\ resp'.op = "update_incident"
               /\ ~UniqueViolation(incidents, resp'.id, incidents[resp'.id].reference)
             => resp'.ok /\ resp'.id \in DOMAIN incidents'
       /\ resp'.op = "run_task" => incidents' = incidents]_vars

\* the states a task does not leave
Final == {"done", "failed"}

\* C22: the email task has bounded retry: a task is never retried more than
\* MaxRetries (3) times, a task that is done or failed stays as it is, and
\* every queued task is eventually done or failed.
C22_BoundedRetry ==
    /\ [](\A t \in DOMAIN tasks : tasks[t].retries <= MaxRetries)
    /\ [][\A t \in DOMAIN tasks : tasks[t].state \in Final => tasks'[t] = tasks[t]]_vars
    /\ \A t \in 1..MaxTasks :
          (t \in DOMAIN tasks) ~> (t \in DOMAIN tasks /\ tasks[t].state \in Final)

\* C22 witness: a task failed for good after its third retry
C22_Witness ==
    \E t \in DOMAIN tasks : tasks[t].state = "failed" /\ tasks[t].retries = MaxRetries

\* C23: mark_as_read on an unread notification sets is_read, sets read_at to
\* the current time and returns true; mark_as_unread on a read notification
\* clears is_read and read_at and returns true; each of them returns false
\* and changes nothing when the notification is already in the target state.
C23_MarkReadUnread ==
    [][/\ resp'.op = "mark_as_read" =>
             LET id == resp'.id
             IN  /\ resp'.ok <=> ~notifications[id].is_read
                 /\ resp'.ok => notifications' =
                        [notifications EXCEPT ![id] = [@ EXCEPT !.is_read = TRUE, !.read_at = now]]
                 /\ ~resp'.ok => notifications' = notifications
       /\ resp'.op = "mark_as_unread" =>
             LET id == resp'.id
             IN  /\ resp'.ok <=> notifications[id].is_read
                 /\ resp'.ok => notifications' =
                        [notifications EXCEPT ![id] = [@ EXCEPT !.is_read = FALSE, !.read_at = NoDate]]
                 /\ ~resp'.ok => notifications' = notifications]_vars

\* C23 witness: a notification read at a later hour than it was created was
\* marked unread again by a call that returned true
C23_Witness ==
    /\ resp.op = "mark_as_unread" /\ resp.ok
    /\ now > 0
    /\ ~notifications[resp.id].is_read /\ notifications[resp.id].read_at = NoDate
    /\ \E other \in DOMAIN notifications : notifications[other].is_read /\ notifications[other].read_at > 0

\* C24: notify_capa_overdue on a CAPA without responsible person returns
\* none and creates no record; on a CAPA with one it creates exactly one
\* notification, of type CAPA_OVERDUE, whose recipient is that person.
C24_NotifyCapaOverdue ==
    [][resp'.op = "notify_capa_overdue" =>
          LET person == capas[resp'.id].responsible_person
              created == DOMAIN notifications' \ DOMAIN notifications
          IN  /\ \A i \in DOMAIN notifications : notifications'[i] = notifications[i]
              /\ person = None => created = {} /\ ~resp'.ok
              /\ person # None =>
                    /\ Cardinality(created) = 1
                    /\ resp'.ok
                    /\ \A i \in created :
                          /\ notifications'[i].recipient = person
                          /\ notifications'[i].notification_type = TYPE_CAPA_OVERDUE]_vars

\* C24 witness: the call created nothing for a CAPA without responsible
\* person after it had created a notification for a CAPA with one
C24_Witness ==
    /\ resp.op = "notify_capa_overdue" /\ ~resp.ok
    /\ capas[resp.id].responsible_person = None
    /\ \E i \in DOMAIN notifications : notifications[i].notification_type = TYPE_CAPA_OVERDUE

\* C30: after any sequence of mark_as_read, mark_as_unread and mark-all-read
\* on notifications created unread with no read_at, every notification has
\* is_read true exactly when read_at is set, and mark-all-read changes only
\* the unread notifications of the requesting user (and reads all of them).
C30_ReadFlagMatchesReadAt ==
    /\ [](\A i \in DOMAIN notifications :
             notifications[i].is_read <=> notifications[i].read_at # NoDate)
    /\ [][resp'.op = "mark_all_read" =>
             \A i \in DOMAIN notifications :
                 IF notifications[i].recipient = resp'.user /\ ~notifications[i].is_read
                 THEN notifications'[i].is_read
                 ELSE notifications'[i] = notifications[i]]_vars

\* C30 witness: mark-all-read of one user has read that user's notification
\* at a later hour and left the unread notification of another user unread
C30_Witness ==
    /\ resp.op = "mark_all_read"
    /\ \E i, j \in DOMAIN notifications :
          /\ notifications[i].recipient = resp.user
          /\ notifications[i].is_read /\ notifications[i].read_at = now /\ now > 0
          /\ notifications[j].recipient # resp.user
          /\ ~notifications[j].is_read

\* C25: whenever an Evidence record is removed, by its own deletion or by
\* the deletion of its CAPA, its stored file is removed too: no stored file
\* is left without an Evidence record that refers to it.
C25_NoFileWithoutEvidence ==
    \A f \in files : \E e \in DOMAIN evidence : evidence[e].file = f

\* the rows of a table that carry prefix and the current year
Matching(table, prefix) == {i \in DOMAIN table : StartsWith(table[i].reference, prefix, year)}

\* C26: for every set of stored references of one prefix and year whose
\* numbers are all at most 99999, the record save() selects as last by
\* string order is the one with the numerically largest number, so the
\* number it issues is the largest stored number plus one.
C26_LastIsNumericMax ==
    \A prefix \in {"INC", "CAPA"} :
        LET table == Table(prefix)
            matching == Matching(table, prefix)
            last == LastByReference(table, prefix, year)
        IN  (matching # {} /\ \A i \in matching : NumberOf(table[i].reference) <= LastPadded)
            => /\ Cardinality(last) = 1
               /\ \A i \in last, j \in matching :
                     NumberOf(table[j].reference) <= NumberOf(table[i].reference)
               /\ \A i \in last :
                     NewNumber(table, prefix, year) = NumberOf(table[i].reference) + 1

\* C26 witness: with 9 and 99 stored and 10 not, a creation was given 100
C26_Witness ==
    /\ resp.op = "create_incident" /\ resp.ok
    /\ NumberOf(resp.reference) = 100
    /\ \E i \in DOMAIN incidents : NumberOf(incidents[i].reference) = 9
    /\ \A i \in DOMAIN incidents : NumberOf(incidents[i].reference) # 10

\* C27: the overdue listings of CAPAs (the overdue endpoint and the filter
\* is_overdue=true) return exactly the CAPAs for which CAPA.is_overdue() is
\* true on the same date.
C27_CapaListingMatchesIsOverdue ==
    (resp.op = "overdue_capas" \/ (resp.op = "filter_capas_overdue" /\ resp.ok))
        => resp.args[1] = {i \in DOMAIN capas : capa_is_overdue(capas[i], now \div 24)}

\* C28: the overdue listings of incidents (the overdue endpoint and the
\* filter is_overdue=true) return exactly the incidents for which
\* Incident.is_overdue() is true at the same instant.
C28_IncidentListingMatchesIsOverdue ==
    (resp.op = "overdue_incidents" \/ (resp.op = "filter_incidents_overdue" /\ resp.ok))
        => resp.args[1] = {i \in DOMAIN incidents : is_overdue(incidents[i], now)}

\* the calls of complete and verify, single and in bulk
IsCompleteOrVerify(r) == r.op \in {"complete_capa", "verify_capa", "mark_completed", "mark_verified"}

\* C29: for a CAPA created Open with no dates and driven by complete and
\* verify under a clock that does not go back: in Completed the
\* completion_date is set and the verification_date is not; in Verified both
\* are set and completion_date <= verification_date; and a CAPA in Verified,
\* Closed or Cancelled is not changed by a further complete or verify.
C29_DatesFollowStatus ==
    /\ [](\A i \in DOMAIN capas :
             /\ capas[i].status = CAPA_STATUS_COMPLETED
                   => capas[i].completion_date # NoDate /\ capas[i].verification_date = NoDate
             /\ capas[i].status = CAPA_STATUS_VERIFIED
                   => /\ capas[i].completion_date # NoDate
                      /\ capas[i].verification_date # NoDate
                      /\ capas[i].completion_date <= capas[i].verification_date)
    /\ [][IsCompleteOrVerify(resp') =>
             \A i \in DOMAIN capas :
                 capas[i].status \in {CAPA_STATUS_VERIFIED, CAPA_STATUS_CLOSED, CAPA_STATUS_CANCELLED}
                     => capas'[i] = capas[i]]_vars

\* C29 witness: a CAPA completed on one day and verified on a later one has
\* just refused a further complete
C29_Witness ==
    /\ resp.op = "complete_capa" /\ ~resp.ok
    /\ capas[resp.id].status = CAPA_STATUS_VERIFIED
    /\ capas[resp.id].completion_date # NoDate
    /\ capas[resp.id].completion_date < capas[resp.id].verification_date

====
